---- MODULE Spec2Model ----
(***************************************************************************)
(* Model of backend/biometric/app.py: the FaceVerificationSystem object    *)
(* (identity store known_faces, audit log verification_logs, threshold,    *)
(* shared camera) and the Flask handlers that drive it.  The server runs   *)
(* with threaded=True, so every HTTP request is its own thread and every   *)
(* registration runs in a further background thread.                       *)
(*                                                                         *)
(* Numbers.  Encoding components, distances and the threshold are fixed    *)
(* point numbers in units of 1/600: 0.55 is 330, 0.59 is 354, 0.6 is 360,  *)
(* 1.0 is 600.  The sample values a camera frame can yield are multiples   *)
(* of 6 units, so that the mean of one, two or three of them is exact.     *)
(* A distance d >= 0 is kept as its square d*d (compare_faces takes a      *)
(* square root last); squaring is strictly increasing on d >= 0, so min    *)
(* and < on distances are min and < on the squares.                        *)
(*                                                                         *)
(* The program's numbers are floating point numbers: a sum or a quotient   *)
(* that needs more than the bits of the significand is rounded to the      *)
(* nearest number that has them, ties going to the even one.  np.mean is   *)
(* modelled with that rounding, on a significand of Mantissa bits, because *)
(* its result is compared for equality with its arguments.  Whole numbers  *)
(* below 2^Mantissa are exact, and so are all the numbers of               *)
(* compare_faces, which are only compared for order.                       *)
(***************************************************************************)
EXTENDS Integers, Sequences, FiniteSets, TLC

VARIABLES
    camera_available,   \* self.camera_available, fixed by __init__
    threshold,          \* self.threshold
    known_faces,        \* self.known_faces: username -> identity record
    verification_logs,  \* self.verification_logs: sequence of log entries
    faces_pkl,          \* contents of face_data/faces.pkl
    logs_json,          \* contents of face_data/verification_logs.json
    now,                \* datetime.now(), in whole seconds
    reg,                \* registration threads: locals of register_user
    ver,                \* verification requests: locals of verify_user
    response,           \* the last HTTP response returned by a handler
    call                \* a function called on its own: arguments and value

vars == <<camera_available, threshold, known_faces, verification_logs,
          faces_pkl, logs_json, now, reg, ver, response, call>>

----------------------------------------------------------------------------
(* Bounds of the model *)

MaxTime == 32       \* the clock stops ticking here
MaxStatLog == 3     \* longest log that statistics are computed over

(* Program constants *)

Timeout == 30               \* seconds, register_user
MinFace == 100              \* pixels, register_user / verify_user
NumSamples == 3             \* register_face: num_samples=3
FullAttempts == 3           \* verify_face: max_attempts=3
QuickAttempts == 1          \* quick_verify: max_attempts=1
DefaultThreshold == 330     \* 0.55
ThresholdLo == 60           \* 0.1
ThresholdHi == 600          \* 1.0
ColourDims == 96            \* compare_faces: weights[96:]
Channels == 3               \* extract_face_encoding: range(3)
ColourBins == 32            \* extract_face_encoding: calcHist(..., [32], ...)
TextureBins == 256          \* extract_lbp_features: bins=256, np.zeros(256)
EdgeBins == 20              \* extract_face_encoding: bins=20
SaveEvery == 10             \* log_verification
LogKeep == 1000             \* save_logs
DaySeconds == 86400         \* timedelta.seconds is the remainder within a day
Inf == 1000000000           \* float('inf')
DefaultLimit == 50          \* get_verification_logs: limit
Mantissa == 11              \* bits of a float's significand (53 in numpy)

Names == {"a", "b"}
Threads == {1, 2}       \* registration threads (one per accepted request)
Requests == {1}         \* verification requests

None == <<>>                \* Python None (encodings are never empty)
NoFaces == [n \in {} |-> 0] \* the empty dict

----------------------------------------------------------------------------
(* Pure helpers *)

Min2(x, y) == IF x < y THEN x ELSE y

\* f[lo] + ... + f[hi]; the sums are of whole numbers, for which the
\* order of the additions does not matter
RECURSIVE SumOver(_, _, _)
SumOver(f, lo, hi) ==
    IF lo > hi THEN 0
    ELSE IF lo = hi THEN f[lo]
    ELSE LET mid == (lo + hi) \div 2
         IN  SumOver(f, lo, mid) + SumOver(f, mid + 1, hi)

SumTo(f, n) == SumOver(f, 1, n)

\* [e for e in xs if keep]
RECURSIVE SelectSeq2(_, _)
SelectSeq2(xs, m) ==
    IF xs = <<>> THEN <<>>
    ELSE IF Head(xs).method = m
         THEN <<Head(xs).encoding>> \o SelectSeq2(Tail(xs), m)
         ELSE SelectSeq2(Tail(xs), m)

\* The distance between neighbouring floats at x >= 0.  Below 2^Mantissa
\* it is at most 1; the model has whole numbers only, and its sample values
\* are such that every quotient below 2^Mantissa is a whole number.
RECURSIVE Spacing(_)
Spacing(x) == IF x < 2 ^ Mantissa THEN 1 ELSE 2 * Spacing(x \div 2)

\* n / d rounded to the nearest multiple of g, a tie to the even multiple
RoundTo(n, d, g) ==
    LET m == n \div (d * g)
        rest == n - m * d * g
    IN  IF 2 * rest < d * g THEN m * g
        ELSE IF 2 * rest > d * g THEN (m + 1) * g
        ELSE IF m % 2 = 0 THEN m * g ELSE (m + 1) * g

\* x + y and s / k in floating point, for numbers >= 0
FAdd(x, y) == RoundTo(x + y, 1, Spacing(x + y))
FDiv(s, k) == RoundTo(s, k, Spacing(s \div k))

\* add.reduce: the first n values summed up one after the other
RECURSIVE FSumTo(_, _)
FSumTo(f, n) ==
    IF n = 1 THEN f[1] ELSE FAdd(FSumTo(f, n - 1), f[n])

\* Faulty variant of Mean: the sum is not divided
Total(vs) ==
    [i \in 1..Len(vs[1]) |->
        FSumTo([k \in 1..Len(vs) |-> vs[k][i]], Len(vs))]

\* np.mean(vectors, axis=0): element-wise mean of a non-empty list of
\* equal-length vectors, the sum along axis 0 divided by their number
Mean(vs) ==
    [i \in 1..Len(vs[1]) |->
        FDiv(FSumTo([k \in 1..Len(vs) |-> vs[k][i]], Len(vs)), Len(vs))]

\* timedelta.seconds of a non-negative difference
Seconds(delta) == delta % DaySeconds

----------------------------------------------------------------------------
(* compare_faces *)

\* numpy broadcasting: shapes (n,) and (m,) combine when n = m or one is 1
Compatible(e1, e2) == Len(e1) = Len(e2) \/ Len(e1) = 1 \/ Len(e2) = 1

At(v, i) == IF Len(v) = 1 THEN v[1] ELSE v[i]

\* Faulty variant of Weights: every dimension weighs the same
WeightsFlat(e1) == [i \in 1..Len(e1) |-> 1]

\* weights = np.ones_like(encoding1); if len(weights) > 96: weights[96:] = 2.0
Weights(e1) ==
    [i \in 1..Len(e1) |->
        IF Len(e1) > ColourDims /\ i > ColourDims THEN 2 ELSE 1]

\* Faulty variant of compare_faces: the encodings are added up
CompareFacesSum(e1, e2, method) ==
    IF e1 = None \/ e2 = None THEN Inf
    ELSE IF ~Compatible(e1, e2) THEN Inf
    ELSE LET n == IF Len(e1) >= Len(e2) THEN Len(e1) ELSE Len(e2)
             w == Weights(e1)
         IN  IF method = "deep_learning"
             THEN SumTo([i \in 1..n |-> (At(e1, i) + At(e2, i)) ^ 2], n)
             ELSE SumTo([i \in 1..n |->
                           (At(w, i) * (At(e1, i) + At(e2, i))) ^ 2], n)

\* Faulty variant of compare_faces: an absent second encoding counts as a
\* vector of zeros
CompareFacesFirstOnly(e1, e2, method) ==
    IF e1 = None THEN Inf
    ELSE LET b == IF e2 = None THEN [i \in 1..Len(e1) |-> 0] ELSE e2
         IN  IF ~Compatible(e1, b) THEN Inf
             ELSE LET n == IF Len(e1) >= Len(b) THEN Len(e1) ELSE Len(b)
                      w == Weights(e1)
                  IN  IF method = "deep_learning"
                      THEN SumTo([i \in 1..n |->
                                    (At(e1, i) - At(b, i)) ^ 2], n)
                      ELSE SumTo([i \in 1..n |->
                                    (At(w, i) * (At(e1, i) - At(b, i))) ^ 2],
                                 n)

\* The square of the value compare_faces returns (Inf for float('inf')).
compare_faces(e1, e2, method) ==
    IF e1 = None \/ e2 = None THEN Inf
    ELSE IF ~Compatible(e1, e2) THEN Inf      \* ValueError -> except -> inf
    ELSE LET n == IF Len(e1) >= Len(e2) THEN Len(e1) ELSE Len(e2)
             w == Weights(e1)
         IN  IF method = "deep_learning"
             THEN SumTo([i \in 1..n |-> (At(e1, i) - At(e2, i)) ^ 2], n)
             ELSE SumTo([i \in 1..n |->
                           (At(w, i) * (At(e1, i) - At(e2, i))) ^ 2], n)

\* best_distance < self.threshold, on a squared distance
BelowThreshold(d, thr) == d # Inf /\ d < thr * thr

----------------------------------------------------------------------------
(* extract_face_encoding and extract_lbp_features.  A face image is given  *)
(* by what the library calls made on it yield: whether it has any pixels;  *)
(* what face_recognition does (it cannot be imported, it raises, it finds  *)
(* no encoding, or it returns one); whether cv2.resize and cv2.cvtColor    *)
(* succeed; per colour channel whether cv2.calcHist raises, returns None   *)
(* or a histogram; and for the local binary patterns and for the edges     *)
(* whether the computation raises or gives a histogram.  Histograms are    *)
(* the normalised ones, of the lengths of the program.                     *)

Fill(n, x) == [i \in 1..n |-> x]

Raises == [outcome |-> "raises", hist |-> <<>>]
ReturnsNone == [outcome |-> "none", hist |-> <<>>]
Returns(hist) == [outcome |-> "ok", hist |-> hist]

\* extract_lbp_features: its own try / except gives np.zeros(256)
extract_lbp_features(texture) ==
    IF texture.outcome = "ok" THEN texture.hist ELSE Fill(TextureBins, 0)

\* features after the loop over the first n channels
RECURSIVE ColourFeatures(_, _)
ColourFeatures(colour, n) ==
    IF n = 0 THEN <<>>
    ELSE ColourFeatures(colour, n - 1)
            \o (IF colour[n].outcome = "ok" THEN colour[n].hist ELSE <<>>)

\* The fallback of extract_face_encoding: one try block around all of it
FeatureBased(face) ==
    IF \/ ~face.resize_ok
       \/ \E c \in 1..Channels : face.colour[c].outcome = "raises"
       \/ ~face.gray_ok
       \/ face.edge.outcome = "raises"
    THEN [encoding |-> None, method |-> "error"]
    ELSE [encoding |-> ColourFeatures(face.colour, Channels)
                          \o extract_lbp_features(face.texture)
                          \o face.edge.hist,
          method |-> "feature_based"]

extract_face_encoding(face) ==
    IF ~face.valid THEN [encoding |-> None, method |-> "invalid"]
    ELSE IF face.deep.outcome = "ok"
         THEN [encoding |-> face.deep.hist, method |-> "deep_learning"]
         ELSE FeatureBased(face)

----------------------------------------------------------------------------
(* Camera frames.  A frame is what capture_frame, detect_faces and         *)
(* extract_face_encoding (OpenCV, face_recognition) yield for it: whether  *)
(* a frame was read, and per detected face its box, whether the crop has   *)
(* any pixels, and the result of extract_face_encoding on the crop.        *)

\* Boxes <<w, h>>: too narrow, too short, exactly the minimum, larger
Boxes == {<<MinFace - 1, MinFace + 1>>, <<MinFace + 1, MinFace - 1>>,
          <<MinFace, MinFace>>, <<MinFace + 1, MinFace + 1>>}

DeepEncodings == {<<354, 0>>, <<0, 360>>}               \* stands for 128-d
FeatureEncodings == {<<0, 0, 0>>, <<6, 0, 1374>>}       \* stands for 372-d

Extractions(deep, feature) ==
    {[encoding |-> e, method |-> "deep_learning"] : e \in deep}
    \cup {[encoding |-> e, method |-> "feature_based"] : e \in feature}
    \cup {[encoding |-> None, method |-> "error"]}

Detections(deep, feature) ==
    {[w |-> b[1], h |-> b[2], nonempty |-> TRUE, encoding |-> x.encoding,
      method |-> x.method] :
        b \in Boxes, x \in Extractions(deep, feature)}
    \cup {[w |-> MinFace + 1, h |-> MinFace + 1, nonempty |-> FALSE,
           encoding |-> None, method |-> "invalid"]}

NoFrame == [ok |-> FALSE, faces |-> <<>>]

\* Frames with at most k detections
Frames(D, k) ==
    {NoFrame} \cup
    {[ok |-> TRUE, faces |-> fs] : fs \in UNION {[1..j -> D] : j \in 0..k}}

\* A box narrower or shorter than the minimum
Small(d) == d.w < MinFace \/ d.h < MinFace

\* Faulty variant of Qualifies: one side large enough suffices
QualifiesEither(d) == d.nonempty /\ (d.w > MinFace \/ d.h > MinFace)

\* if face.size > 0 and w > 100 and h > 100
Qualifies(d) == d.nonempty /\ d.w > MinFace /\ d.h > MinFace

----------------------------------------------------------------------------
(* State *)

\* mutated records that the thread has changed known_faces; saw_small that
\* it has looked at a detection narrower or shorter than the minimum;
\* logged_at is the length of verification_logs right after the thread's
\* append (0 before it) and saved whether the thread has called save_logs.
IdleReg == [pc |-> "idle", username |-> "", samples |-> <<>>,
            start_time |-> 0, result |-> "none", mutated |-> FALSE,
            saw_small |-> FALSE, logged_at |-> 0, saved |-> FALSE]

\* last_best and candidates record the attempt just made: the minimum
\* distance over the detections that yielded one (Inf when there is none or
\* no frame was read) and the boxes of those detections; captures counts the
\* calls of capture_frame; saw_small is as for a registration thread;
\* compared holds, for each call of compare_faces in the attempt, the
\* methods that produced its two arguments; logged_at and saved are as for
\* a registration thread.
IdleVer == [pc |-> "idle", username |-> "", max_attempts |-> 0,
            attempt |-> 0, registered_encoding |-> None, method |-> "",
            last_best |-> Inf, candidates |-> {}, result |-> "none",
            captures |-> 0, saw_small |-> FALSE, compared |-> {},
            logged_at |-> 0, saved |-> FALSE]

NoResponse == [op |-> "none", status |-> 0, body |-> ""]

\* No function is being called on its own
NoCall == [fn |-> "none"]

\* The value of a call that has not returned yet
Pending == [encoding |-> None, method |-> "pending"]

\* An identity as register_user stores it
Identity(encoding, method, samples, registered) ==
    [encoding |-> encoding, method |-> method, samples |-> samples,
     registered |-> registered]

\* What load_data can have read from faces.pkl at start-up: nothing, or
\* identities registered by an earlier run (registered before time 0).
InitialStores ==
    {NoFaces,
     "a" :> Identity(<<0, 0>>, "deep_learning", NumSamples, -1),
     "a" :> Identity(<<0, 0, 0>>, "feature_based", NumSamples, -1)}

Init ==
    /\ camera_available \in BOOLEAN
    /\ threshold = DefaultThreshold
    /\ known_faces \in InitialStores
    /\ verification_logs = <<>>
    /\ faces_pkl = known_faces
    /\ logs_json = <<>>
    /\ now = 0
    /\ reg = [t \in Threads |-> IdleReg]
    /\ ver = [r \in Requests |-> IdleVer]
    /\ response = NoResponse
    /\ call = NoCall

\* Threads that are inside capture_frame (self.cap.read())
Capturing ==
    {<<"reg", t>> : t \in {x \in Threads : reg[x].pc = "capture"}}
    \cup {<<"ver", r>> : r \in {x \in Requests : ver[x].pc = "capture"}}

----------------------------------------------------------------------------
(* log_verification, save_logs, save_data *)

LogEntry(username, action, success, key, value) ==
    [timestamp |-> now, username |-> username, action |-> action,
     success |-> success, details |-> [key |-> key, value |-> value]]

\* Faulty variant of LastLogs: the oldest entries are kept
FirstLogs(logs) ==
    IF Len(logs) <= LogKeep THEN logs ELSE SubSeq(logs, 1, LogKeep)

\* self.verification_logs[-1000:]
LastLogs(logs) ==
    IF Len(logs) <= LogKeep THEN logs
    ELSE SubSeq(logs, Len(logs) - LogKeep + 1, Len(logs))

\* log_verification up to the append.  The append and the later look at
\* the length are two accesses of the shared list, so they are two steps.
log_verification(entry) ==
    verification_logs' = Append(verification_logs, entry)

\* save_logs; write_ok is whether the file could be written (the failure is
\* swallowed)
save_logs(write_ok) ==
    logs_json' = IF write_ok THEN LastLogs(verification_logs) ELSE logs_json

\* Whether the rest of log_verification calls save_logs
SaveDue == Len(verification_logs) % SaveEvery = 0

\* log_verification after the append: if len(...) % 10 == 0: save_logs()
SaveLogsIfDue(write_ok) ==
    IF SaveDue THEN save_logs(write_ok) ELSE UNCHANGED logs_json

\* save_data: pickle the (new) known_faces; a failure is only printed
save_data(write_ok) ==
    faces_pkl' = IF write_ok THEN known_faces' ELSE faces_pkl

----------------------------------------------------------------------------
(* get_verification_stats.  A timestamp that was found is <<t>>, None is   *)
(* <<>>; "not last_success" is "last_success is None", the timestamps being *)
(* non-empty strings.  The success rate is kept as the fraction num / den. *)

\* [log for log in logs if log.get('username') == username]
RECURSIVE UserLogs(_, _)
UserLogs(logs, username) ==
    IF logs = <<>> THEN <<>>
    ELSE IF Head(logs).username = username
         THEN <<Head(logs)>> \o UserLogs(Tail(logs), username)
         ELSE UserLogs(Tail(logs), username)

\* Faulty variant of LastTimes: the log is scanned from its oldest entry
RECURSIVE FirstTimes(_, _, _)
FirstTimes(user_logs, last_success, last_failure) ==
    IF user_logs = <<>> \/ (last_success # None /\ last_failure # None)
    THEN [last_success |-> last_success, last_failure |-> last_failure]
    ELSE LET log == Head(user_logs)
             rest == Tail(user_logs)
         IN  IF log.success /\ last_success = None
             THEN FirstTimes(rest, <<log.timestamp>>, last_failure)
             ELSE IF ~log.success /\ last_failure = None
             THEN FirstTimes(rest, last_success, <<log.timestamp>>)
             ELSE FirstTimes(rest, last_success, last_failure)

\* The loop over reversed(user_logs), from the given values of last_success
\* and last_failure
RECURSIVE LastTimes(_, _, _)
LastTimes(user_logs, last_success, last_failure) ==
    IF user_logs = <<>> \/ (last_success # None /\ last_failure # None)
    THEN [last_success |-> last_success, last_failure |-> last_failure]
    ELSE LET log == user_logs[Len(user_logs)]
             rest == SubSeq(user_logs, 1, Len(user_logs) - 1)
         IN  IF log.success /\ last_success = None
             THEN LastTimes(rest, <<log.timestamp>>, last_failure)
             ELSE IF ~log.success /\ last_failure = None
             THEN LastTimes(rest, last_success, <<log.timestamp>>)
             ELSE LastTimes(rest, last_success, last_failure)

get_verification_stats(username) ==
    LET user_logs == UserLogs(verification_logs, username)
        successful == Len(SelectSeq(user_logs, LAMBDA log : log.success))
        failed == Len(user_logs) - successful
        last == LastTimes(user_logs, None, None)
    IN  [total_attempts |-> Len(user_logs),
         successful |-> successful,
         failed |-> failed,
         success_rate |-> IF user_logs # <<>>
                          THEN [num |-> successful * 100,
                                den |-> Len(user_logs)]
                          ELSE [num |-> 0, den |-> 1],
         last_success |-> last.last_success,
         last_failure |-> last.last_failure]

----------------------------------------------------------------------------
(* register_face and register_user *)

\* POST /api/face/register, with a username given
RegisterFace(t, name) ==
    /\ reg[t].pc = "idle"
    /\ IF name \in DOMAIN known_faces
       THEN /\ response' = [op |-> "register", status |-> 400,
                            body |-> "User already registered"]
            /\ UNCHANGED reg
       ELSE IF ~camera_available
       THEN /\ response' = [op |-> "register", status |-> 503,
                            body |-> "Camera not available"]
            /\ UNCHANGED reg
       ELSE /\ response' = [op |-> "register", status |-> 200,
                            body |-> "Registration started"]
            /\ reg' = [reg EXCEPT ![t] =
                         [IdleReg EXCEPT !.pc = "spawned", !.username = name]]
    /\ UNCHANGED <<call, camera_available, threshold, known_faces,
                   verification_logs, faces_pkl, logs_json, now, ver>>

\* register_user, entry: the camera check and start_time
RegisterStart(t) ==
    /\ reg[t].pc = "spawned"
    /\ reg' = [reg EXCEPT ![t] =
                 IF ~camera_available
                 THEN [@ EXCEPT !.pc = "done", !.result = "CameraUnavailable"]
                 ELSE [@ EXCEPT !.pc = "loop", !.start_time = now]]
    /\ UNCHANGED <<call, camera_available, threshold, known_faces,
                   verification_logs, faces_pkl, logs_json, now, ver,
                   response>>

\* Faulty variant of TimedOut: gives up at the limit itself
TimedOutAtLimit(start_time) == Seconds(now - start_time) >= Timeout

\* (datetime.now() - start_time).seconds > 30
TimedOut(start_time) == Seconds(now - start_time) > Timeout

\* Faulty variant of RegisterPoll: on timeout, stores what was collected
RegisterPollStoresPartial(t) ==
    /\ reg[t].pc = "loop"
    /\ IF TimedOut(reg[t].start_time)
       THEN /\ known_faces' =
                 IF reg[t].samples = <<>> THEN known_faces
                 ELSE (reg[t].username :>
                         Identity(reg[t].samples[1].encoding,
                                  reg[t].samples[1].method,
                                  Len(reg[t].samples), now)) @@ known_faces
            /\ reg' = [reg EXCEPT ![t] =
                         [@ EXCEPT !.pc = "done", !.result = "Timeout",
                                   !.mutated =
                                      @ \/ known_faces' # known_faces]]
       ELSE /\ reg' = [reg EXCEPT ![t] = [@ EXCEPT !.pc = "capture"]]
            /\ UNCHANGED known_faces
    /\ UNCHANGED <<call, camera_available, threshold, verification_logs,
                   faces_pkl, logs_json, now, ver, response>>

\* register_user, head of the while loop: the timeout check, then the call
\* of capture_frame
RegisterPoll(t) ==
    /\ reg[t].pc = "loop"
    /\ reg' = [reg EXCEPT ![t] =
                 IF TimedOut(reg[t].start_time)
                 THEN [@ EXCEPT !.pc = "done", !.result = "Timeout"]
                 ELSE [@ EXCEPT !.pc = "capture"]]
    /\ UNCHANGED <<call, camera_available, threshold, known_faces,
                   verification_logs, faces_pkl, logs_json, now, ver,
                   response>>

\* The samples list after one frame has been looked at
AddSample(samples, f) ==
    IF f.ok /\ Len(f.faces) > 0 /\ Qualifies(f.faces[1])
            /\ f.faces[1].encoding # None
    THEN Append(samples, [encoding |-> f.faces[1].encoding,
                          method |-> f.faces[1].method,
                          w |-> f.faces[1].w, h |-> f.faces[1].h])
    ELSE samples

\* register_user, rest of the loop body: capture_frame returns f
RegisterCaptured(t, f) ==
    /\ reg[t].pc = "capture"
    /\ LET s == AddSample(reg[t].samples, f)
       IN  reg' = [reg EXCEPT ![t] =
                     [@ EXCEPT !.samples = s,
                               !.saw_small =
                                  @ \/ (f.ok /\ Len(f.faces) > 0
                                           /\ Small(f.faces[1])),
                               !.pc = IF Len(s) < NumSamples
                                      THEN "loop" ELSE "commit"]]
    /\ UNCHANGED <<call, camera_available, threshold, known_faces,
                   verification_logs, faces_pkl, logs_json, now, ver,
                   response>>

\* Faulty variant of ChosenMethod: the method of most samples
ChosenMethodMajority(samples) ==
    LET d == Len(SelectSeq2(samples, "deep_learning"))
        f == Len(SelectSeq2(samples, "feature_based"))
    IN  IF d + f = 0 THEN ""
        ELSE IF d > 0 /\ d >= f THEN "deep_learning" ELSE "feature_based"

\* The method of the identity built from the samples ("" for none)
ChosenMethod(samples) ==
    IF SelectSeq2(samples, "deep_learning") # <<>> THEN "deep_learning"
    ELSE IF SelectSeq2(samples, "feature_based") # <<>> THEN "feature_based"
    ELSE ""

\* Faulty variant of AvgEncoding: the first sample instead of the mean
FirstEncoding(samples) ==
    SelectSeq2(samples, ChosenMethod(samples))[1]

\* avg_encoding
AvgEncoding(samples) ==
    Mean(SelectSeq2(samples, ChosenMethod(samples)))

\* Faulty variant of RegisterCommit: a failed save_data ends the thread
RegisterCommitOrAbort(t, write_ok) ==
    /\ reg[t].pc = "commit"
    /\ LET s == reg[t].samples
       IN  IF s # <<>> /\ ChosenMethod(s) # "" /\ write_ok
           THEN /\ known_faces' =
                     (reg[t].username :>
                        Identity(AvgEncoding(s), ChosenMethod(s), Len(s), now))
                     @@ known_faces
                /\ save_data(write_ok)
                /\ reg' = [reg EXCEPT ![t] =
                             [@ EXCEPT !.pc = "log",
                                       !.mutated =
                                          @ \/ known_faces' # known_faces]]
           ELSE /\ reg' = [reg EXCEPT ![t] =
                             [@ EXCEPT !.pc = "done",
                                       !.result = "NoValidSamples"]]
                /\ UNCHANGED <<known_faces, faces_pkl>>
    /\ UNCHANGED <<call, camera_available, threshold, verification_logs,
                   logs_json, now, ver, response>>

\* register_user after the loop: aggregate, store, save_data
RegisterCommit(t, write_ok) ==
    /\ reg[t].pc = "commit"
    /\ LET s == reg[t].samples
       IN  IF s # <<>> /\ ChosenMethod(s) # ""
           THEN /\ known_faces' =
                     (reg[t].username :>
                        Identity(AvgEncoding(s), ChosenMethod(s), Len(s), now))
                     @@ known_faces
                /\ save_data(write_ok)
                /\ reg' = [reg EXCEPT ![t] =
                             [@ EXCEPT !.pc = "log",
                                       !.mutated =
                                          @ \/ known_faces' # known_faces]]
           ELSE /\ reg' = [reg EXCEPT ![t] =
                             [@ EXCEPT !.pc = "done",
                                       !.result = "NoValidSamples"]]
                /\ UNCHANGED <<known_faces, faces_pkl>>
    /\ UNCHANGED <<call, camera_available, threshold, verification_logs,
                   logs_json, now, ver, response>>

\* register_user, the end: the registration is logged ...
RegisterLog(t) ==
    /\ reg[t].pc = "log"
    /\ log_verification(LogEntry(reg[t].username, "registration", TRUE,
                                 "samples", Len(reg[t].samples)))
    /\ reg' = [reg EXCEPT ![t] =
                 [@ EXCEPT !.pc = "save_logs",
                           !.logged_at = Len(verification_logs')]]
    /\ UNCHANGED <<call, camera_available, threshold, known_faces, faces_pkl,
                   logs_json, now, ver, response>>

\* ... the log is saved if it is due, and register_user returns True
RegisterSaveLogs(t, write_ok) ==
    /\ reg[t].pc = "save_logs"
    /\ SaveLogsIfDue(write_ok)
    /\ reg' = [reg EXCEPT ![t] =
                 [@ EXCEPT !.pc = "done", !.result = "Committed",
                           !.saved = SaveDue]]
    /\ UNCHANGED <<call, camera_available, threshold, known_faces,
                   verification_logs, faces_pkl, now, ver, response>>

\* Time passes.  The only use of the clock that decides anything is the
\* elapsed time of a registration loop, so the clock is advanced only while
\* some registration thread is in its loop.
Tick ==
    /\ now < MaxTime
    /\ \E t \in Threads : reg[t].pc \in {"loop", "capture"}
    /\ now' = now + 1
    /\ UNCHANGED <<call, camera_available, threshold, known_faces,
                   verification_logs, faces_pkl, logs_json, reg, ver,
                   response>>

----------------------------------------------------------------------------
(* verify_face, quick_verify and verify_user *)

\* Faulty variant of VerifyFace: the name is not looked up
VerifyFaceUnchecked(r, name, max) ==
    /\ ver[r].pc = "idle"
    /\ IF ~camera_available
       THEN /\ response' = [op |-> "verify", status |-> 503,
                            body |-> "Camera not available"]
            /\ UNCHANGED ver
       ELSE /\ ver' = [ver EXCEPT ![r] =
                         [IdleVer EXCEPT !.pc = "entered", !.username = name,
                                         !.max_attempts = max]]
            /\ UNCHANGED response
    /\ UNCHANGED <<call, camera_available, threshold, known_faces,
                   verification_logs, faces_pkl, logs_json, now, reg>>

\* POST /api/face/verify (max = 3) and /api/face/quick-verify (max = 1)
VerifyFace(r, name, max) ==
    /\ ver[r].pc = "idle"
    /\ IF name \notin DOMAIN known_faces
       THEN /\ response' = [op |-> "verify", status |-> 404,
                            body |-> "User not registered"]
            /\ UNCHANGED ver
       ELSE IF ~camera_available
       THEN /\ response' = [op |-> "verify", status |-> 503,
                            body |-> "Camera not available"]
            /\ UNCHANGED ver
       ELSE /\ ver' = [ver EXCEPT ![r] =
                         [IdleVer EXCEPT !.pc = "entered", !.username = name,
                                         !.max_attempts = max]]
            /\ UNCHANGED response
    /\ UNCHANGED <<call, camera_available, threshold, known_faces,
                   verification_logs, faces_pkl, logs_json, now, reg>>

\* The response of verify_face / quick_verify for the value of verify_user
Verified(v) ==
    [op |-> "verify", status |-> 200,
     body |-> IF v THEN "verified" ELSE "Verification failed"]

\* verify_user, entry: the identity is looked up and read
VerifyStart(r) ==
    /\ ver[r].pc = "entered"
    /\ IF ver[r].username \notin DOMAIN known_faces
       THEN /\ ver' = [ver EXCEPT ![r] =
                         [@ EXCEPT !.pc = "done", !.result = "NotRegistered"]]
            /\ response' = Verified(FALSE)
       ELSE IF ~camera_available
       THEN /\ ver' = [ver EXCEPT ![r] =
                         [@ EXCEPT !.pc = "done",
                                   !.result = "CameraUnavailable"]]
            /\ response' = Verified(FALSE)
       ELSE /\ ver' = [ver EXCEPT ![r] =
                         [@ EXCEPT !.pc = "attempt",
                                   !.registered_encoding =
                                       known_faces[ver[r].username].encoding,
                                   !.method =
                                       known_faces[ver[r].username].method]]
            /\ UNCHANGED response
    /\ UNCHANGED <<call, camera_available, threshold, known_faces,
                   verification_logs, faces_pkl, logs_json, now, reg>>

\* verify_user, head of the for loop: the next attempt calls capture_frame
VerifyAttempt(r) ==
    /\ ver[r].pc = "attempt"
    /\ ver[r].attempt < ver[r].max_attempts
    /\ ver' = [ver EXCEPT ![r] = [@ EXCEPT !.pc = "capture"]]
    /\ UNCHANGED <<call, camera_available, threshold, known_faces,
                   verification_logs, faces_pkl, logs_json, now, reg,
                   response>>

\* The detections of a frame that yield a distance
RECURSIVE Candidates(_)
Candidates(faces) ==
    IF faces = <<>> THEN <<>>
    ELSE IF Qualifies(Head(faces)) /\ Head(faces).encoding # None
         THEN <<Head(faces)>> \o Candidates(Tail(faces))
         ELSE Candidates(Tail(faces))

\* distance of one detection to the registered encoding
Distance(d, registered_encoding, method) ==
    IF method = d.method
    THEN compare_faces(d.encoding, registered_encoding, method)
    ELSE compare_faces(d.encoding, registered_encoding, "feature_based")

\* best_distance after the loop over the faces of one frame
RECURSIVE BestOf(_, _, _)
BestOf(cands, registered_encoding, method) ==
    IF cands = <<>> THEN Inf
    ELSE Min2(Distance(Head(cands), registered_encoding, method),
              BestOf(Tail(cands), registered_encoding, method))

BestDistance(faces, registered_encoding, method) ==
    BestOf(Candidates(faces), registered_encoding, method)

\* Faulty variant of Accepts: <= in place of <
AcceptsAtOrBelow(best_distance) ==
    best_distance # Inf /\ best_distance <= threshold * threshold

\* if best_distance < self.threshold
Accepts(best_distance) == BelowThreshold(best_distance, threshold)

\* verify_user, body of the for loop: capture_frame returns f.  An accepted
\* attempt is logged here; the log is saved, if due, in VerifySaveLogs.
VerifyCaptured(r, f) ==
    /\ ver[r].pc = "capture"
    /\ IF ~f.ok
       THEN /\ ver' = [ver EXCEPT ![r] =
                         [@ EXCEPT !.pc = "attempt", !.attempt = @ + 1,
                                   !.captures = @ + 1, !.last_best = Inf,
                                   !.candidates = {}, !.compared = {}]]
            /\ UNCHANGED verification_logs
       ELSE LET best == BestDistance(f.faces, ver[r].registered_encoding,
                                     ver[r].method)
                boxes == {<<Candidates(f.faces)[i].w,
                            Candidates(f.faces)[i].h>> :
                             i \in 1..Len(Candidates(f.faces))}
                small == ver[r].saw_small
                           \/ \E i \in 1..Len(f.faces) : Small(f.faces[i])
                pairs == {<<Candidates(f.faces)[i].method, ver[r].method>> :
                             i \in 1..Len(Candidates(f.faces))}
            IN  IF Accepts(best)
                THEN /\ log_verification(
                          LogEntry(ver[r].username, "verification", TRUE,
                                   "distance", best))
                     /\ ver' = [ver EXCEPT ![r] =
                                  [@ EXCEPT !.pc = "save_logs",
                                            !.result = "accept",
                                            !.last_best = best,
                                            !.candidates = boxes,
                                            !.saw_small = small,
                                            !.compared = pairs,
                                            !.captures = @ + 1,
                                            !.logged_at =
                                               Len(verification_logs')]]
                ELSE /\ ver' = [ver EXCEPT ![r] =
                                  [@ EXCEPT !.pc = "attempt",
                                            !.attempt = @ + 1,
                                            !.last_best = best,
                                            !.candidates = boxes,
                                            !.saw_small = small,
                                            !.compared = pairs,
                                            !.captures = @ + 1]]
                     /\ UNCHANGED verification_logs
    /\ UNCHANGED <<call, camera_available, threshold, known_faces, faces_pkl,
                   logs_json, now, reg, response>>

\* Faulty variant of VerifyExhausted: no log entry is appended
VerifyExhaustedSilent(r) ==
    /\ ver[r].pc = "attempt"
    /\ ver[r].attempt >= ver[r].max_attempts
    /\ ver' = [ver EXCEPT ![r] =
                 [@ EXCEPT !.pc = "save_logs", !.result = "reject"]]
    /\ UNCHANGED <<call, camera_available, threshold, known_faces, faces_pkl,
                   now, reg, verification_logs, logs_json, response>>

\* verify_user after the for loop: all attempts failed, which is logged
VerifyExhausted(r) ==
    /\ ver[r].pc = "attempt"
    /\ ver[r].attempt >= ver[r].max_attempts
    /\ log_verification(LogEntry(ver[r].username, "verification", FALSE,
                                 "attempts", ver[r].max_attempts))
    /\ ver' = [ver EXCEPT ![r] =
                 [@ EXCEPT !.pc = "save_logs", !.result = "reject",
                           !.logged_at = Len(verification_logs')]]
    /\ UNCHANGED <<call, camera_available, threshold, known_faces, faces_pkl,
                   logs_json, now, reg, response>>

\* The rest of log_verification in verify_user (the log is saved if it is
\* due), the return of verify_user, and the handler's response
VerifySaveLogs(r, write_ok) ==
    /\ ver[r].pc = "save_logs"
    /\ SaveLogsIfDue(write_ok)
    /\ ver' = [ver EXCEPT ![r] = [@ EXCEPT !.pc = "done", !.saved = SaveDue]]
    /\ response' = Verified(ver[r].result = "accept")
    /\ UNCHANGED <<call, camera_available, threshold, known_faces,
                   verification_logs, faces_pkl, now, reg>>

----------------------------------------------------------------------------
(* update_threshold and delete_user *)

\* Faulty variant of UpdateThreshold: any value is taken
UpdateThresholdUnchecked(value) ==
    /\ threshold' = value
    /\ response' = [op |-> "update-threshold", status |-> 200,
                    body |-> "Threshold updated", threshold |-> value]
    /\ UNCHANGED <<call, camera_available, known_faces, verification_logs,
                   faces_pkl, logs_json, now, reg, ver>>

\* POST /api/face/update-threshold with a numeric value
UpdateThreshold(value) ==
    /\ IF ThresholdLo <= value /\ value <= ThresholdHi
       THEN /\ threshold' = value
            /\ response' = [op |-> "update-threshold", status |-> 200,
                            body |-> "Threshold updated",
                            threshold |-> value]
       ELSE /\ response' = [op |-> "update-threshold", status |-> 400,
                            body |-> "Threshold must be between 0.1 and 1.0"]
            /\ UNCHANGED threshold
    /\ UNCHANGED <<call, camera_available, known_faces, verification_logs,
                   faces_pkl, logs_json, now, reg, ver>>

\* GET /api/face/stats/<username>
GetUserStats(username) ==
    /\ response' =
          IF username \notin DOMAIN known_faces
          THEN [op |-> "stats", status |-> 404, body |-> "User not found"]
          ELSE [op |-> "stats", status |-> 200, username |-> username,
                stats |-> get_verification_stats(username)]
    /\ UNCHANGED <<call, camera_available, threshold, known_faces,
                   verification_logs, faces_pkl, logs_json, now, reg, ver>>

\* xs[start:] as Python slices a list
SliceFrom(xs, start) ==
    LET n == Len(xs)
        from == IF start < 0
                THEN (IF n + start < 0 THEN 0 ELSE n + start)
                ELSE (IF start > n THEN n ELSE start)
    IN  SubSeq(xs, from + 1, n)

\* GET /api/face/logs?limit=..&username=..  ("" for no username)
GetVerificationLogs(limit, username) ==
    /\ LET logs == IF username # ""
                   THEN UserLogs(verification_logs, username)
                   ELSE verification_logs
       IN  response' = [op |-> "logs", status |-> 200,
                        logs |-> SliceFrom(logs, 0 - limit),
                        total |-> Len(logs)]
    /\ UNCHANGED <<call, camera_available, threshold, known_faces,
                   verification_logs, faces_pkl, logs_json, now, reg, ver>>

\* GET /api/face/users
ListUsers ==
    /\ response' = [op |-> "users", status |-> 200,
                    users |-> DOMAIN known_faces]
    /\ UNCHANGED <<call, camera_available, threshold, known_faces,
                   verification_logs, faces_pkl, logs_json, now, reg, ver>>

\* Faulty variant of DeleteUser: every identity is removed
DeleteAllUsers(name, write_ok) ==
    /\ IF name \in DOMAIN known_faces
       THEN /\ known_faces' = NoFaces
            /\ save_data(write_ok)
            /\ response' = [op |-> "delete-user", status |-> 200,
                            body |-> "deleted"]
       ELSE /\ response' = [op |-> "delete-user", status |-> 404,
                            body |-> "User not found"]
            /\ UNCHANGED <<known_faces, faces_pkl>>
    /\ UNCHANGED <<call, camera_available, threshold, verification_logs,
                   logs_json, now, reg, ver>>

\* POST /api/face/delete-user
DeleteUser(name, write_ok) ==
    /\ IF name \in DOMAIN known_faces
       THEN /\ known_faces' =
                 [n \in DOMAIN known_faces \ {name} |-> known_faces[n]]
            /\ save_data(write_ok)
            /\ response' = [op |-> "delete-user", status |-> 200,
                            body |-> "deleted"]
       ELSE /\ response' = [op |-> "delete-user", status |-> 404,
                            body |-> "User not found"]
            /\ UNCHANGED <<known_faces, faces_pkl>>
    /\ UNCHANGED <<call, camera_available, threshold, verification_logs,
                   logs_json, now, reg, ver>>

----------------------------------------------------------------------------
(* The enrollment workflow alone: one registration thread and the clock *)

EnrollFrames == Frames(Detections(DeepEncodings, FeatureEncodings), 1)

NextEnroll ==
    \/ \E n \in Names : RegisterFace(1, n)
    \/ RegisterStart(1)
    \/ RegisterPoll(1)
    \/ \E f \in EnrollFrames : RegisterCaptured(1, f)
    \/ \E ok \in BOOLEAN : RegisterCommit(1, ok)
    \/ RegisterLog(1)
    \/ \E ok \in BOOLEAN : RegisterSaveLogs(1, ok)
    \/ Tick

SpecEnroll == Init /\ [][NextEnroll]_vars

----------------------------------------------------------------------------
(* The enrollment workflow with a frame source that never yields a usable  *)
(* face: no frame, no detection, or a first detection narrower or shorter  *)
(* than the minimum.  The thread keeps being scheduled, capture_frame      *)
(* returns, and the clock advances.                                        *)

BarrenFrames ==
    {f \in EnrollFrames :
        \/ ~f.ok
        \/ f.faces = <<>>
        \/ f.faces[1].w < MinFace
        \/ f.faces[1].h < MinFace}

NextBarren ==
    \/ \E n \in Names : RegisterFace(1, n)
    \/ RegisterStart(1)
    \/ RegisterPoll(1)
    \/ \E f \in BarrenFrames : RegisterCaptured(1, f)
    \/ Tick

SpecBarren ==
    /\ Init
    /\ [][NextBarren]_vars
    /\ WF_vars(RegisterStart(1))
    /\ WF_vars(RegisterPoll(1))
    /\ WF_vars(\E f \in BarrenFrames : RegisterCaptured(1, f))
    /\ WF_vars(Tick)

----------------------------------------------------------------------------
(* The verification workflow alone: one request, and the threshold *)

VerifyFrames == Frames(Detections(DeepEncodings, {<<0, 0, 0>>}), 2)

\* 0.05, 0.1, 0.6, 1.0, 1.5
ThresholdInputs == {30, 60, 360, 600, 900}

NextVerify ==
    \/ \E n \in Names, m \in {FullAttempts, QuickAttempts} :
          VerifyFace(1, n, m)
    \/ VerifyStart(1)
    \/ VerifyAttempt(1)
    \/ \E f \in VerifyFrames : VerifyCaptured(1, f)
    \/ VerifyExhausted(1)
    \/ \E ok \in BOOLEAN : VerifySaveLogs(1, ok)
    \/ \E v \in ThresholdInputs : UpdateThreshold(v)

SpecVerify == Init /\ [][NextVerify]_vars

\* The request's thread keeps being scheduled and capture_frame returns
LiveVerify ==
    /\ SpecVerify
    /\ WF_vars(VerifyStart(1))
    /\ WF_vars(VerifyAttempt(1))
    /\ WF_vars(\E f \in VerifyFrames : VerifyCaptured(1, f))
    /\ WF_vars(VerifyExhausted(1))
    /\ WF_vars(\E ok \in BOOLEAN : VerifySaveLogs(1, ok))

----------------------------------------------------------------------------
(* The server: a registration thread, a verification request and the      *)
(* other handlers, running concurrently (app.run(..., threaded=True)),     *)
(* all within one second of the clock.                                     *)

ServerDetections == Detections({<<354, 0>>}, {<<0, 0, 0>>})
ServerFrames == Frames(ServerDetections, 1)

Next ==
    \/ \E n \in Names : RegisterFace(1, n)
    \/ RegisterStart(1)
    \/ RegisterPoll(1)
    \/ \E f \in ServerFrames : RegisterCaptured(1, f)
    \/ RegisterCommit(1, TRUE)
    \/ RegisterLog(1)
    \/ RegisterSaveLogs(1, TRUE)
    \/ \E r \in Requests, n \in Names, m \in {FullAttempts, QuickAttempts} :
          VerifyFace(r, n, m)
    \/ \E r \in Requests : VerifyStart(r)
    \/ \E r \in Requests : VerifyAttempt(r)
    \/ \E r \in Requests, f \in ServerFrames : VerifyCaptured(r, f)
    \/ \E r \in Requests : VerifyExhausted(r)
    \/ \E r \in Requests : VerifySaveLogs(r, TRUE)
    \/ \E n \in Names : DeleteUser(n, TRUE)

Spec == Init /\ [][Next]_vars

----------------------------------------------------------------------------
(* Two registration requests at once, each with its own thread *)

NextRace ==
    \/ \E t \in Threads, n \in Names : RegisterFace(t, n)
    \/ \E t \in Threads : RegisterStart(t)
    \/ \E t \in Threads : RegisterPoll(t)
    \/ \E t \in Threads, f \in ServerFrames : RegisterCaptured(t, f)
    \/ \E t \in Threads : RegisterCommit(t, TRUE)
    \/ \E t \in Threads : RegisterLog(t)
    \/ \E t \in Threads : RegisterSaveLogs(t, TRUE)

SpecRace == Init /\ [][NextRace]_vars

----------------------------------------------------------------------------
(* The audit log of a server that has been running for a while: n entries  *)
(* have been logged already, and the file holds what the last due save     *)
(* wrote.  A registration thread and a verification request then log       *)
(* concurrently.                                                           *)

\* The log after n failed verifications of "a", one second apart
EarlierLogs(n) ==
    [i \in 1..n |->
        [timestamp |-> i - n - 1, username |-> "a", action |-> "verification",
         success |-> FALSE,
         details |-> [key |-> "attempts", value |-> FullAttempts]]]

\* Two and one before the first save, one before the save that fills the
\* file, and one before the first save that has to drop entries
LogLengths ==
    {SaveEvery - 2, SaveEvery - 1, LogKeep - 1, LogKeep + SaveEvery - 1}

\* What the save at the last multiple of SaveEvery entries wrote
LastSaved(logs) ==
    LastLogs(SubSeq(logs, 1, Len(logs) - (Len(logs) % SaveEvery)))

InitLog ==
    /\ camera_available = TRUE
    /\ threshold = DefaultThreshold
    /\ known_faces = "a" :> Identity(<<0, 0>>, "deep_learning", NumSamples, -1)
    /\ verification_logs \in {EarlierLogs(n) : n \in LogLengths}
    /\ faces_pkl = known_faces
    /\ logs_json = LastSaved(verification_logs)
    /\ now = 0
    /\ reg = [t \in Threads |-> IdleReg]
    /\ ver = [r \in Requests |-> IdleVer]
    /\ response = NoResponse
    /\ call = NoCall

\* No frame, or the same face every time, large enough
PlainFrames ==
    {NoFrame,
     [ok |-> TRUE,
      faces |-> <<[w |-> MinFace + 1, h |-> MinFace + 1, nonempty |-> TRUE,
                   encoding |-> <<354, 0>>, method |-> "deep_learning"]>>]}

NextLog ==
    \/ \E n \in Names : RegisterFace(1, n)
    \/ RegisterStart(1)
    \/ RegisterPoll(1)
    \/ \E f \in PlainFrames : RegisterCaptured(1, f)
    \/ RegisterCommit(1, TRUE)
    \/ RegisterLog(1)
    \/ \E ok \in BOOLEAN : RegisterSaveLogs(1, ok)
    \/ \E n \in Names, m \in {FullAttempts, QuickAttempts} :
          VerifyFace(1, n, m)
    \/ VerifyStart(1)
    \/ VerifyAttempt(1)
    \/ \E f \in PlainFrames : VerifyCaptured(1, f)
    \/ VerifyExhausted(1)
    \/ \E ok \in BOOLEAN : VerifySaveLogs(1, ok)

SpecLog == InitLog /\ [][NextLog]_vars

----------------------------------------------------------------------------
(* Deleting and registering again: someone is registered at the start, a   *)
(* registration thread runs with the clock, and users are deleted.         *)

InitReenroll == Init /\ known_faces # NoFaces

NextReenroll ==
    \/ \E n \in Names : RegisterFace(1, n)
    \/ RegisterStart(1)
    \/ RegisterPoll(1)
    \/ \E f \in PlainFrames : RegisterCaptured(1, f)
    \/ RegisterCommit(1, TRUE)
    \/ RegisterLog(1)
    \/ RegisterSaveLogs(1, TRUE)
    \/ \E n \in Names : DeleteUser(n, TRUE)
    \/ Tick

SpecReenroll == InitReenroll /\ [][NextReenroll]_vars

----------------------------------------------------------------------------
(* The server with a disk that may refuse any write: a registration        *)
(* thread, a verification request, and the handlers that read or change    *)
(* the store, within one second of the clock.  The log is empty or one     *)
(* entry short of a save.                                                  *)

InitStore ==
    /\ camera_available \in BOOLEAN
    /\ threshold = DefaultThreshold
    /\ known_faces \in InitialStores
    /\ verification_logs \in {<<>>, EarlierLogs(SaveEvery - 1)}
    /\ faces_pkl = known_faces
    /\ logs_json = LastSaved(verification_logs)
    /\ now = 0
    /\ reg = [t \in Threads |-> IdleReg]
    /\ ver = [r \in Requests |-> IdleVer]
    /\ response = NoResponse
    /\ call = NoCall

NextStore ==
    \/ \E n \in Names : RegisterFace(1, n)
    \/ RegisterStart(1)
    \/ RegisterPoll(1)
    \/ \E f \in PlainFrames : RegisterCaptured(1, f)
    \/ \E ok \in BOOLEAN : RegisterCommit(1, ok)
    \/ RegisterLog(1)
    \/ \E ok \in BOOLEAN : RegisterSaveLogs(1, ok)
    \/ \E n \in Names, m \in {FullAttempts, QuickAttempts} :
          VerifyFace(1, n, m)
    \/ VerifyStart(1)
    \/ VerifyAttempt(1)
    \/ \E f \in PlainFrames : VerifyCaptured(1, f)
    \/ VerifyExhausted(1)
    \/ \E ok \in BOOLEAN : VerifySaveLogs(1, ok)
    \/ \E n \in Names, ok \in BOOLEAN : DeleteUser(n, ok)
    \/ ListUsers

SpecStore == InitStore /\ [][NextStore]_vars

----------------------------------------------------------------------------
(* extract_face_encoding called on one face image *)

FaceImages ==
    [valid : BOOLEAN,
     deep : {[outcome |-> "ImportError", hist |-> <<>>], Raises,
             [outcome |-> "empty", hist |-> <<>>], Returns(<<354, 0>>)},
     resize_ok : BOOLEAN,
     colour : [1..Channels ->
                  {Raises, ReturnsNone, Returns(Fill(ColourBins, 6))}],
     gray_ok : BOOLEAN,
     texture : {Raises, Returns(Fill(TextureBins, 12))},
     edge : {Raises, Returns(Fill(EdgeBins, 30))}]

InitExtract ==
    /\ camera_available = TRUE
    /\ threshold = DefaultThreshold
    /\ known_faces = NoFaces
    /\ verification_logs = <<>>
    /\ faces_pkl = known_faces
    /\ logs_json = <<>>
    /\ now = 0
    /\ reg = [t \in Threads |-> IdleReg]
    /\ ver = [r \in Requests |-> IdleVer]
    /\ response = NoResponse
    /\ call \in {[fn |-> "extract_face_encoding", face_image |-> f,
                   value |-> Pending] : f \in FaceImages}

ExtractFaceEncoding ==
    /\ call.fn = "extract_face_encoding"
    /\ call.value = Pending
    /\ call' = [call EXCEPT !.value = extract_face_encoding(call.face_image)]
    /\ UNCHANGED <<camera_available, threshold, known_faces,
                   verification_logs, faces_pkl, logs_json, now, reg, ver,
                   response>>

NextExtract == ExtractFaceEncoding

SpecExtract == InitExtract /\ [][NextExtract]_vars

----------------------------------------------------------------------------
(* Statistics over a log: "a" is registered, "b" was and has been deleted, *)
(* and the log holds up to MaxStatLog entries of theirs, one second apart. *)

StatEntries ==
    {[username |-> "a", action |-> "verification", success |-> TRUE,
      details |-> [key |-> "distance", value |-> 0]],
     [username |-> "a", action |-> "verification", success |-> FALSE,
      details |-> [key |-> "attempts", value |-> FullAttempts]],
     [username |-> "b", action |-> "registration", success |-> TRUE,
      details |-> [key |-> "samples", value |-> NumSamples]],
     [username |-> "b", action |-> "verification", success |-> FALSE,
      details |-> [key |-> "attempts", value |-> QuickAttempts]]}

\* The entries es, logged one second apart, the last one a second ago
Stamped(es) ==
    [i \in 1..Len(es) |->
        [timestamp |-> i - Len(es) - 1, username |-> es[i].username,
         action |-> es[i].action, success |-> es[i].success,
         details |-> es[i].details]]

StatLogs ==
    {Stamped(es) : es \in UNION {[1..n -> StatEntries] : n \in 0..MaxStatLog}}

InitStats ==
    /\ camera_available = TRUE
    /\ threshold = DefaultThreshold
    /\ known_faces = "a" :> Identity(<<0, 0>>, "deep_learning", NumSamples, -1)
    /\ verification_logs \in StatLogs
    /\ faces_pkl = known_faces
    /\ logs_json = <<>>
    /\ now = 0
    /\ reg = [t \in Threads |-> IdleReg]
    /\ ver = [r \in Requests |-> IdleVer]
    /\ response = NoResponse
    /\ call = NoCall

NextStats == \E n \in Names : GetUserStats(n)

SpecStats == InitStats /\ [][NextStats]_vars

----------------------------------------------------------------------------
(* Requests for the recent entries of such a log: with a limit from none   *)
(* to more than the log holds, the default, or a negative one; with the    *)
(* username of some entries, of none, or without a username.               *)

Limits == (0 - 1)..(MaxStatLog + 1) \cup {DefaultLimit}

NextRecent ==
    \E limit \in Limits, n \in Names \cup {"", "c"} :
       GetVerificationLogs(limit, n)

SpecRecent == InitStats /\ [][NextRecent]_vars

----------------------------------------------------------------------------
(* compare_faces called on two encodings.  The encodings are of the        *)
(* lengths the program produces: 128 from face_recognition, and from the   *)
(* fallback 256 texture and 20 edge values after 32 colour values for each *)
(* channel of which calcHist gave a histogram; or there is none.           *)

\* The length of the encodings face_recognition.face_encodings returns
DeepDims == 128

\* A fallback encoding with n colour histograms, all values of a segment
\* the same
Features(n, colour, texture, edge) ==
    Fill(n * ColourBins, colour) \o Fill(TextureBins, texture)
        \o Fill(EdgeBins, edge)

Bump(v, i, x) == [v EXCEPT ![i] = x]

\* Among them are encodings that differ in one dimension only: the last
\* colour value (index 95) or the first texture value (index 96).
ComparedEncodings ==
    {None,
     Fill(DeepDims, 0),
     Bump(Fill(DeepDims, 0), DeepDims, 354),
     Features(Channels, 0, 0, 0),
     Features(Channels, 6, 12, 0),
     Bump(Features(Channels, 6, 12, 0), ColourDims, 12),
     Bump(Features(Channels, 6, 12, 0), ColourDims + 1, 18),
     Features(Channels - 1, 6, 12, 6)}

InitCompare ==
    /\ camera_available = TRUE
    /\ threshold = DefaultThreshold
    /\ known_faces = NoFaces
    /\ verification_logs = <<>>
    /\ faces_pkl = known_faces
    /\ logs_json = <<>>
    /\ now = 0
    /\ reg = [t \in Threads |-> IdleReg]
    /\ ver = [r \in Requests |-> IdleVer]
    /\ response = NoResponse
    /\ call \in {[fn |-> "compare_faces", encoding1 |-> a, encoding2 |-> b,
                   method |-> m, returned |-> FALSE, value |-> 0] :
                     a \in ComparedEncodings, b \in ComparedEncodings,
                     m \in {"deep_learning", "feature_based"}}

CompareFaces ==
    /\ call.fn = "compare_faces"
    /\ ~call.returned
    /\ call' = [call EXCEPT
                    !.returned = TRUE,
                    !.value = compare_faces(call.encoding1, call.encoding2,
                                            call.method)]
    /\ UNCHANGED <<camera_available, threshold, known_faces,
                   verification_logs, faces_pkl, logs_json, now, reg, ver,
                   response>>

NextCompare == CompareFaces

SpecCompare == InitCompare /\ [][NextCompare]_vars

----------------------------------------------------------------------------
(* Claims *)

\* The step in which request r's call of capture_frame returns
Attempted(r) == ver[r].pc = "capture" /\ ver'[r].pc # "capture"

\* C1: an attempt of verify_user accepts if and only if the minimum distance
\* over the attempt's detections is strictly below the current threshold
\* (distances are kept squared); so at threshold 0.6 (360) a best distance
\* of 0.59 (354) accepts and one of exactly 0.60 (360) does not.
C1_AcceptIffBelowThreshold ==
    [][\A r \in Requests :
         Attempted(r) =>
            /\ (ver'[r].result = "accept") <=>
                  (ver'[r].last_best # Inf
                     /\ ver'[r].last_best < threshold * threshold)
            /\ (threshold = 360 /\ ver'[r].last_best = 354 * 354)
                  => ver'[r].result = "accept"
            /\ (threshold = 360 /\ ver'[r].last_best = 360 * 360)
                  => ver'[r].result # "accept"]_vars

C1_Witness ==
    /\ ver[1].result = "accept"
    /\ threshold = 360
    /\ ver[1].last_best = 354 * 354

\* C2: a registration whose frames never hold a usable face ends with the
\* Timeout outcome (provided the clock can still run that far), and the
\* step that ends it that way is taken only when more than 30 seconds have
\* elapsed since start_time.
C2_BarrenEnrollmentTimesOut ==
    /\ [][\A t \in Threads :
            (reg[t].result # "Timeout" /\ reg'[t].result = "Timeout")
               => now - reg[t].start_time > Timeout]_vars
    /\ \A t \in Threads :
          (reg[t].pc = "loop" /\ reg[t].start_time + Timeout < MaxTime)
             ~> (reg[t].pc = "done" /\ reg[t].result = "Timeout")

C2_Witness ==
    /\ reg[1].pc = "done"
    /\ reg[1].result = "Timeout"
    /\ reg[1].samples = <<>>
    /\ now - reg[1].start_time = Timeout + 1

Failures == {"Timeout", "CameraUnavailable", "NoValidSamples"}

\* C3: every registration that has ended in failure has left a failure
\* entry with its username in verification_logs.
C3_FailureIsLogged ==
    \A t \in Threads :
       (reg[t].pc = "done" /\ reg[t].result \in Failures) =>
          \E i \in 1..Len(verification_logs) :
             /\ verification_logs[i].username = reg[t].username
             /\ verification_logs[i].action = "registration"
             /\ ~verification_logs[i].success

\* C4: a registration that has ended in failure has not changed
\* known_faces: no step of its thread added, replaced or removed an entry.
C4_FailureLeavesStore ==
    \A t \in Threads :
       (reg[t].pc = "done" /\ reg[t].result \in Failures) => ~reg[t].mutated

C4_Witness ==
    /\ reg[1].pc = "done"
    /\ reg[1].result = "Timeout"
    /\ Len(reg[1].samples) = 2
    /\ reg[1].username \notin DOMAIN known_faces

\* C5: a registration thread that reaches the store step for a username
\* already in known_faces is rejected and leaves known_faces as it is.
C5_DuplicateCommitRejected ==
    [][\A t \in Threads :
         (reg[t].pc = "commit" /\ reg'[t].pc # "commit"
             /\ reg[t].username \in DOMAIN known_faces)
         => /\ known_faces' = known_faces
            /\ reg'[t].pc = "done"
            /\ reg'[t].result # "Committed"]_vars

\* The thread has stored the identity built from its samples
Stored(t) == reg[t].pc \in {"log", "save_logs"} \/ reg[t].result = "Committed"

CountOf(samples, m) ==
    Cardinality({i \in 1..Len(samples) : samples[i].method = m})

\* C6 as stated: the method of a stored identity is the method of the
\* majority of the samples collected for it, deep_learning on a tie that
\* has a deep_learning sample.
C6_MethodIsMajority ==
    \A t \in Threads :
       Stored(t) =>
          LET d == CountOf(reg[t].samples, "deep_learning")
              f == CountOf(reg[t].samples, "feature_based")
          IN  known_faces[reg[t].username].method =
                 IF d > f \/ (d = f /\ d > 0) THEN "deep_learning"
                 ELSE "feature_based"

\* C6 as amended: the method of a stored identity is deep_learning when at
\* least one deep_learning sample was collected for it, whatever the
\* majority, and feature_based otherwise; an identity is stored only from
\* a non-empty list of samples.
C6_MethodIsDeepIfAny ==
    \A t \in Threads :
       Stored(t) =>
          /\ reg[t].samples # <<>>
          /\ known_faces[reg[t].username].method =
                IF CountOf(reg[t].samples, "deep_learning") > 0
                THEN "deep_learning" ELSE "feature_based"

C6_Witness ==
    /\ Stored(1)
    /\ CountOf(reg[1].samples, "deep_learning") = 1
    /\ CountOf(reg[1].samples, "feature_based") = 2
    /\ known_faces[reg[1].username].method = "deep_learning"

\* The samples the stored encoding is built from: the deep_learning ones
\* if there is any, else the feature_based ones
Contributing(samples) ==
    LET d == {i \in 1..Len(samples) : samples[i].method = "deep_learning"}
    IN  IF d # {} THEN d
        ELSE {i \in 1..Len(samples) : samples[i].method = "feature_based"}

\* C7: the encoding stored once NumSamples samples are collected is the
\* element-wise mean of the deep_learning samples if there is one, else of
\* the feature_based samples: each component times the number of
\* contributing samples is the sum of their components (to within the
\* rounding of the sum, when the sum needs more than Mantissa bits); the
\* samples of the other method add nothing.
C7_EncodingIsMeanOfChosen ==
    \A t \in Threads :
       Stored(t) =>
          LET smp == reg[t].samples
              c == Contributing(smp)
              enc == known_faces[reg[t].username].encoding
          IN  /\ Len(smp) = NumSamples
              /\ c # {}
              /\ \A i \in c : Len(smp[i].encoding) = Len(enc)
              /\ \A j \in 1..Len(enc) :
                    LET sum == SumTo([i \in 1..Len(smp) |->
                                        IF i \in c THEN smp[i].encoding[j]
                                        ELSE 0], Len(smp))
                        diff == enc[j] * Cardinality(c) - sum
                    IN  IF sum < 2 ^ Mantissa THEN diff = 0
                        ELSE /\ diff <= Cardinality(c) * Spacing(sum)
                             /\ -diff <= Cardinality(c) * Spacing(sum)

C7_Witness ==
    /\ Stored(1)
    /\ known_faces[reg[1].username].encoding = <<177, 180>>
    /\ CountOf(reg[1].samples, "feature_based") = 1

\* C8: no sample of a registration and no detection that yielded a distance
\* in a verification attempt has a box narrower or shorter than MinFace.
C8_NoSmallBoxUsed ==
    /\ \A t \in Threads : \A i \in 1..Len(reg[t].samples) :
          reg[t].samples[i].w >= MinFace /\ reg[t].samples[i].h >= MinFace
    /\ \A r \in Requests : \A b \in ver[r].candidates :
          b[1] >= MinFace /\ b[2] >= MinFace

C8_Witness ==
    /\ reg[1].saw_small
    /\ reg[1].samples # <<>>
    /\ ver[1].saw_small
    /\ ver[1].captures > 0
    /\ ver[1].candidates = {}

\* C9: at most one thread is inside capture_frame at any time.
C9_OneCaptureInFlight == Cardinality(Capturing) <= 1

\* The log entries of the verification of request r
EntriesOf(r) ==
    {i \in 1..Len(verification_logs) :
        /\ verification_logs[i].username = ver[r].username
        /\ verification_logs[i].action = "verification"}

C10_Outcome(r) ==
    /\ ver[r].captures <= ver[r].max_attempts
    /\ ver[r].pc \in {"entered", "attempt", "capture"} =>
          /\ ver[r].result = "none"
          /\ EntriesOf(r) = {}
          /\ ver[r].captures = ver[r].attempt
    /\ ver[r].pc \in {"save_logs", "done"} =>
          /\ ver[r].result \in {"accept", "reject"}
          /\ Cardinality(EntriesOf(r)) = 1
          /\ \A i \in EntriesOf(r) :
                IF ver[r].result = "accept"
                THEN /\ verification_logs[i].success
                     /\ verification_logs[i].details =
                           [key |-> "distance", value |-> ver[r].last_best]
                     /\ ver[r].last_best # Inf
                     /\ ver[r].captures = ver[r].attempt + 1
                ELSE /\ ~verification_logs[i].success
                     /\ verification_logs[i].details =
                           [key |-> "attempts", value |-> ver[r].max_attempts]
                     /\ ver[r].captures = ver[r].max_attempts

C10_Step(r) ==
    Attempted(r) =>
       /\ (ver'[r].last_best # Inf
             /\ ver'[r].last_best < threshold * threshold)
          => ver'[r].pc = "save_logs" /\ ver'[r].result = "accept"
       /\ ver'[r].candidates = {} =>
             /\ ver'[r].pc = "attempt"
             /\ ver'[r].attempt = ver[r].attempt + 1
             /\ verification_logs' = verification_logs

\* C10: a verification of a registered user makes at most max_attempts
\* calls of capture_frame and ends with one result and one log entry: accept
\* on the first attempt whose best distance is below the threshold (a
\* success entry with that distance, no further attempt), else reject after
\* max_attempts attempts (a failure entry with the attempt count); an
\* attempt without a frame or without a usable detection only moves on to
\* the next attempt.
C10_VerificationTerminates ==
    /\ [](\A r \in Requests : C10_Outcome(r))
    /\ [][\A r \in Requests : C10_Step(r)]_vars
    /\ \A r \in Requests : (ver[r].pc = "entered") ~> (ver[r].pc = "done")

C10_Witness ==
    /\ ver[1].pc = "done"
    /\ ver[1].result = "reject"
    /\ ver[1].max_attempts = FullAttempts
    /\ ver[1].captures = FullAttempts
    /\ ver[1].candidates = {}
    /\ Len(verification_logs) = 1

\* C11: every call of compare_faces made by a verification attempt gets two
\* encodings produced by the same method (never a deep_learning vector and
\* a feature_based one).
C11_SameMethodCompared ==
    \A r \in Requests : \A p \in ver[r].compared : p[1] = p[2]

\* A step in which save_logs is called and writes the file
LogsWritten ==
    /\ SaveDue
    /\ \/ \E t \in Threads : RegisterSaveLogs(t, TRUE)
       \/ \E r \in Requests : VerifySaveLogs(r, TRUE)

\* C12: the file never holds more than LogKeep entries; a step in which
\* save_logs writes it leaves in it the last min(LogKeep, n) of the n
\* entries verification_logs has at that moment, in their order; and no
\* other step changes the file.
C12_SnapshotIsRecentTail ==
    /\ [](Len(logs_json) <= LogKeep)
    /\ [][IF LogsWritten
          THEN LET n == Len(verification_logs)
                   k == Min2(LogKeep, n)
               IN  /\ Len(logs_json') = k
                   /\ \A i \in 1..k :
                         logs_json'[i] = verification_logs[n - k + i]
          ELSE logs_json' = logs_json]_vars

C12_Witness ==
    /\ Len(verification_logs) = LogKeep + SaveEvery
    /\ Len(logs_json) = LogKeep
    /\ logs_json[1] = verification_logs[SaveEvery + 1]
    /\ logs_json[LogKeep] = verification_logs[LogKeep + SaveEvery]
    /\ logs_json[LogKeep].timestamp = 0

\* C13: a thread that has finished log_verification has called save_logs
\* if and only if its own append made the length of verification_logs a
\* multiple of SaveEvery.
C13_SavedOnTenthOnly ==
    /\ \A t \in Threads :
          (reg[t].pc = "done" /\ reg[t].logged_at > 0) =>
             (reg[t].saved <=> reg[t].logged_at % SaveEvery = 0)
    /\ \A r \in Requests :
          (ver[r].pc = "done" /\ ver[r].logged_at > 0) =>
             (ver[r].saved <=> ver[r].logged_at % SaveEvery = 0)

\* The last response is that of an update of the threshold to v
Updated(v) ==
    /\ response.op = "update-threshold"
    /\ response.status = 200
    /\ response.threshold = v

\* C14: an update of the threshold with a value below 0.1 or above 1.0
\* (0.05 and 1.5 among them) is answered with status 400 and leaves the
\* threshold as it is; one with a value from 0.1 to 1.0 (0.6 among them) is
\* answered with status 200 and sets the threshold; and as long as that
\* answer is the last one given, every attempt of a verification accepts
\* if and only if its best distance is below the value set.
C14_ThresholdUpdate ==
    /\ [][\A v \in ThresholdInputs :
            UpdateThreshold(v) =>
               /\ (v < ThresholdLo \/ v > ThresholdHi \/ v \in {30, 900}) =>
                     threshold' = threshold /\ response'.status = 400
               /\ ((ThresholdLo <= v /\ v <= ThresholdHi) \/ v = 360) =>
                     threshold' = v /\ Updated(v)']_vars
    /\ [](\A v \in ThresholdInputs : Updated(v) => threshold = v)
    /\ [][\A r \in Requests, v \in ThresholdInputs :
            (Attempted(r) /\ Updated(v)) =>
               ((ver'[r].result = "accept") <=>
                   (ver'[r].last_best # Inf /\ ver'[r].last_best < v * v))]_vars

C14_Witness ==
    /\ Updated(360)
    /\ ver[1].pc = "save_logs"
    /\ ver[1].result = "accept"
    /\ ver[1].last_best = 354 * 354
    /\ ver[1].attempt = 1

\* C15: deleting a name that is not in known_faces is answered with status
\* 404 and changes neither known_faces nor the file; deleting a name that
\* is there removes that entry and no other; a registration request for a
\* name that is not (or no longer) there is accepted when the camera is
\* available; and the identity a registration stores carries the time of
\* storing, no identity being registered later than now.
C15_DeleteThenReenroll ==
    /\ [][\A n \in Names :
            DeleteUser(n, TRUE) =>
               IF n \in DOMAIN known_faces
               THEN /\ response'.status = 200
                    /\ DOMAIN known_faces' = DOMAIN known_faces \ {n}
                    /\ \A m \in DOMAIN known_faces' :
                          known_faces'[m] = known_faces[m]
               ELSE /\ response'.status = 404
                    /\ known_faces' = known_faces
                    /\ faces_pkl' = faces_pkl]_vars
    /\ [][\A t \in Threads, n \in Names :
            (RegisterFace(t, n) /\ n \notin DOMAIN known_faces
                /\ camera_available)
            => /\ response'.status = 200
               /\ reg'[t].pc = "spawned"
               /\ reg'[t].username = n]_vars
    /\ [][\A t \in Threads :
            (reg[t].pc = "commit" /\ reg'[t].pc = "log")
            => /\ reg[t].username \in DOMAIN known_faces'
               /\ known_faces'[reg[t].username].registered = now]_vars
    /\ [](\A n \in DOMAIN known_faces : known_faces[n].registered <= now)

\* "a", registered at the start, has been deleted and registered again
C15_Witness ==
    /\ reg[1].username = "a"
    /\ reg[1].result = "Committed"
    /\ "a" \in DOMAIN known_faces
    /\ known_faces["a"].registered = 2
    /\ known_faces["a"].encoding = <<354, 0>>

\* C16: a verification request for a name that is not in known_faces is
\* answered with status 404 without entering verify_user; verify_user
\* called for such a name returns at once; in both cases capture_frame is
\* not called and known_faces, its file, the threshold and the log stay as
\* they are.
C16_UnknownNameNotVerified ==
    /\ [][\A r \in Requests, n \in Names,
             m \in {FullAttempts, QuickAttempts} :
            (VerifyFace(r, n, m) /\ n \notin DOMAIN known_faces)
            => /\ response' = [op |-> "verify", status |-> 404,
                               body |-> "User not registered"]
               /\ ver' = ver
               /\ UNCHANGED <<known_faces, faces_pkl, threshold,
                              verification_logs>>]_vars
    /\ [][\A r \in Requests :
            (ver[r].pc = "entered" /\ ver'[r].pc # "entered"
                /\ ver[r].username \notin DOMAIN known_faces)
            => /\ ver'[r].pc = "done"
               /\ ver'[r].result = "NotRegistered"
               /\ UNCHANGED <<known_faces, faces_pkl, threshold,
                              verification_logs>>]_vars
    /\ [](\A r \in Requests :
            ver[r].result = "NotRegistered" =>
               ver[r].captures = 0 /\ ver[r].pc = "done")

C16_Witness ==
    /\ response = [op |-> "verify", status |-> 404,
                   body |-> "User not registered"]
    /\ ver[1].pc = "idle"
    /\ ver[1].captures = 0
    /\ DOMAIN known_faces = {"a"}
    /\ reg[1].pc = "capture"

\* The part of a vector from index a + 1 to index a + n
Segment(v, a, n) == [i \in 1..n |-> v[a + i]]

\* C17: for a face image that has pixels, gets no deep_learning encoding,
\* is resized and converted, and for which calcHist does not return None,
\* extract_face_encoding returns a feature_based encoding of the full
\* length in which the segment of every histogram whose computation raised
\* is all zeros and every other segment is the histogram computed.
C17_SegmentFailureIsZeroed ==
    LET face == call.face_image
        v == call.value
        Expected(h, n) == IF h.outcome = "ok" THEN h.hist ELSE Fill(n, 0)
    IN  (/\ call.fn = "extract_face_encoding"
         /\ v # Pending
         /\ face.valid
         /\ face.deep.outcome # "ok"
         /\ face.resize_ok
         /\ face.gray_ok
         /\ \A c \in 1..Channels : face.colour[c].outcome # "none")
        => /\ v.method = "feature_based"
           /\ Len(v.encoding) = Channels * ColourBins + TextureBins + EdgeBins
           /\ \A c \in 1..Channels :
                 Segment(v.encoding, (c - 1) * ColourBins, ColourBins) =
                    Expected(face.colour[c], ColourBins)
           /\ Segment(v.encoding, Channels * ColourBins, TextureBins) =
                 Expected(face.texture, TextureBins)
           /\ Segment(v.encoding, Channels * ColourBins + TextureBins,
                      EdgeBins) = Expected(face.edge, EdgeBins)

\* A registration entry of verification_logs for the thread's username
Logged(t) ==
    \E i \in 1..Len(verification_logs) :
       /\ verification_logs[i].username = reg[t].username
       /\ verification_logs[i].action = "registration"
       /\ verification_logs[i].success

\* C18: whether or not the files can be written, a registration thread
\* that has collected its samples stores the identity in known_faces and
\* goes on to log a success entry and end as Committed, and a verification
\* goes on from its log entry to its answer; and the handlers work on
\* known_faces, not on the file: a verification request for a name in
\* known_faces is taken up and compares against the encoding in
\* known_faces, the list of users is the domain of known_faces, and a
\* delete of a name in known_faces succeeds.
C18_SaveFailureIsNotFatal ==
    /\ [][\A t \in Threads :
            /\ (reg[t].pc = "commit" /\ reg'[t].pc # "commit"
                   /\ reg[t].samples # <<>>)
               => /\ reg'[t].pc = "log"
                  /\ reg[t].username \in DOMAIN known_faces'
            /\ (reg[t].pc = "log" /\ reg'[t].pc # "log")
               => reg'[t].pc = "save_logs" /\ Logged(t)'
            /\ (reg[t].pc = "save_logs" /\ reg'[t].pc # "save_logs")
               => reg'[t].pc = "done" /\ reg'[t].result = "Committed"]_vars
    /\ [](\A t \in Threads : reg[t].result = "Committed" => Logged(t))
    /\ [][\A r \in Requests :
            /\ (ver[r].pc = "save_logs" /\ ver'[r].pc # "save_logs")
               => /\ ver'[r].pc = "done"
                  /\ response' = Verified(ver[r].result = "accept")
            /\ (ver[r].pc = "entered" /\ ver'[r].pc = "attempt")
               => ver'[r].registered_encoding =
                     known_faces[ver[r].username].encoding
            /\ \A n \in Names, m \in {FullAttempts, QuickAttempts} :
                  (VerifyFace(r, n, m) /\ n \in DOMAIN known_faces
                      /\ camera_available)
                  => ver'[r].pc = "entered"]_vars
    /\ [][ListUsers => response'.users = DOMAIN known_faces]_vars
    /\ [][\A n \in Names, ok \in BOOLEAN :
            (DeleteUser(n, ok) /\ n \in DOMAIN known_faces)
            => response'.status = 200 /\ n \notin DOMAIN known_faces']_vars

\* No write succeeded: "b" is registered in memory only, its log entry was
\* the tenth and is not in the file, and "b" has been verified
C18_Witness ==
    /\ reg[1].result = "Committed"
    /\ reg[1].username = "b"
    /\ reg[1].saved
    /\ "b" \in DOMAIN known_faces
    /\ "b" \notin DOMAIN faces_pkl
    /\ logs_json = <<>>
    /\ ver[1].username = "b"
    /\ ver[1].pc = "done"
    /\ ver[1].result = "accept"

\* The greatest element of a non-empty set of numbers
Newest(S) == CHOOSE i \in S : \A j \in S : j <= i

\* C19: the statistics returned for a registered name are, over the
\* entries of verification_logs with that name: their number, the number
\* of those with success, the difference of the two, the success rate
\* successful / total * 100 (0 when there is no entry), and the timestamps
\* of the last successful and of the last failed entry in the log (None
\* when there is none).
C19_StatsOfLog ==
    (response.op = "stats" /\ response.status = 200) =>
       LET st == response.stats
           E == {i \in 1..Len(verification_logs) :
                    verification_logs[i].username = response.username}
           S == {i \in E : verification_logs[i].success}
           F == E \ S
       IN  /\ st.total_attempts = Cardinality(E)
           /\ st.successful = Cardinality(S)
           /\ st.failed = Cardinality(E) - Cardinality(S)
           /\ st.success_rate.den > 0
           /\ IF E = {} THEN st.success_rate.num = 0
              ELSE st.success_rate.num * Cardinality(E) =
                      Cardinality(S) * 100 * st.success_rate.den
           /\ st.last_success =
                 IF S = {} THEN None
                 ELSE <<verification_logs[Newest(S)].timestamp>>
           /\ st.last_failure =
                 IF F = {} THEN None
                 ELSE <<verification_logs[Newest(F)].timestamp>>

\* A failure and then a success of "a", with an entry of "b" in the log
C19_Witness ==
    /\ response.op = "stats"
    /\ response.status = 200
    /\ response.username = "a"
    /\ \E i \in 1..Len(verification_logs) :
          verification_logs[i].username = "b"
    /\ response.stats.total_attempts = 2
    /\ response.stats.successful = 1
    /\ response.stats.failed = 1
    /\ response.stats.success_rate = [num |-> 100, den |-> 2]
    /\ response.stats.last_success = <<-1>>
    /\ response.stats.last_failure # None
    /\ response.stats.last_failure # <<-2>>

\* All samples of the thread are the same encoding of the same method
SameSamples(t) ==
    /\ reg[t].samples # <<>>
    /\ \A i \in 1..Len(reg[t].samples) :
          /\ reg[t].samples[i].encoding = reg[t].samples[1].encoding
          /\ reg[t].samples[i].method = reg[t].samples[1].method

\* C20 as stated: when all samples collected are the same encoding, the
\* encoding stored is that encoding.
C20_SameSamplesSameEncoding ==
    \A t \in Threads :
       (Stored(t) /\ SameSamples(t)) =>
          known_faces[reg[t].username].encoding = reg[t].samples[1].encoding

\* C20 as amended: when all NumSamples samples collected are the same
\* encoding, the identity stored has their method and an encoding of their
\* length, of which each component is the sample's component when
\* NumSamples times that component is a float, and in any case differs
\* from it by no more than the distance between neighbouring floats there.
C20_SameSamplesWithinRounding ==
    \A t \in Threads :
       (Stored(t) /\ SameSamples(t)) =>
          LET v == reg[t].samples[1].encoding
              id == known_faces[reg[t].username]
          IN  /\ Len(reg[t].samples) = NumSamples
              /\ id.method = reg[t].samples[1].method
              /\ Len(id.encoding) = Len(v)
              /\ \A j \in 1..Len(v) :
                    /\ NumSamples * v[j] < 2 ^ Mantissa => id.encoding[j] = v[j]
                    /\ id.encoding[j] - v[j] <= Spacing(v[j])
                    /\ v[j] - id.encoding[j] <= Spacing(v[j])

C20_Witness ==
    /\ Stored(1)
    /\ SameSamples(1)
    /\ reg[1].samples[1].encoding = <<6, 0, 1374>>
    /\ known_faces[reg[1].username].encoding = <<6, 0, 1373>>
    /\ known_faces[reg[1].username].method = "feature_based"

\* A call of compare_faces has returned
Compared == call.fn = "compare_faces" /\ call.returned

\* C21: compare_faces of an encoding and itself is 0, with either method.
C21_DistanceToItselfIsZero ==
    (/\ Compared
     /\ call.encoding1 # None
     /\ call.encoding1 = call.encoding2) => call.value = 0

C21_Witness ==
    /\ Compared
    /\ call.encoding1 = Bump(Features(Channels, 6, 12, 0), ColourDims + 1, 18)
    /\ call.encoding1 = call.encoding2
    /\ call.method = "feature_based"
    /\ call.value = 0

\* C22: compare_faces gives the same value when its two encodings are
\* exchanged, with either method, also when one is absent or their
\* lengths differ.
C22_DistanceIsSymmetric ==
    Compared =>
       call.value = compare_faces(call.encoding2, call.encoding1, call.method)

C22_Witness ==
    /\ Compared
    /\ call.encoding1 = Features(Channels - 1, 6, 12, 6)
    /\ call.encoding2 = Features(Channels, 6, 12, 0)
    /\ call.method = "feature_based"
    /\ call.value = Inf

\* C24: for two vectors of the same length the feature_based distance is
\* the weighted Euclidean distance with weight 1 in the first ColourDims
\* dimensions (indices 0..95) and weight 2 in all later ones.
C24_WeightedFrom96 ==
    (/\ Compared
     /\ call.method = "feature_based"
     /\ call.encoding1 # None
     /\ call.encoding2 # None
     /\ Len(call.encoding1) = Len(call.encoding2)) =>
        LET a == call.encoding1
            b == call.encoding2
        IN  call.value =
               SumTo([i \in 1..Len(a) |->
                        IF i <= ColourDims THEN (a[i] - b[i]) ^ 2
                        ELSE (2 * (a[i] - b[i])) ^ 2], Len(a))

\* The last colour value differs by 6: 36; the first texture value
\* differs by 6: 144.
C24_Witness ==
    /\ Compared
    /\ call.method = "feature_based"
    /\ call.encoding1 = Bump(Features(Channels, 6, 12, 0), ColourDims, 12)
    /\ call.encoding2 = Bump(Features(Channels, 6, 12, 0), ColourDims + 1, 18)
    /\ call.value = 36 + 144

\* A detection with pixels whose box is at least MinFace wide and high and
\* of which extract_face_encoding gives an encoding
MeetsMinimum(d) ==
    d.nonempty /\ d.w >= MinFace /\ d.h >= MinFace /\ d.encoding # None

\* C23: a detection whose box is at least MinFace wide and high, exactly
\* MinFace included, is not rejected as too small: when it is the first
\* one of a frame of a registration and its extraction succeeds it becomes
\* a sample, and in a verification attempt its distance is taken.
C23_MinimumBoxAccepted ==
    [][/\ \A f \in ServerFrames :
             (/\ RegisterCaptured(1, f)
              /\ f.ok
              /\ Len(f.faces) > 0
              /\ MeetsMinimum(f.faces[1])) =>
                 Len(reg'[1].samples) = Len(reg[1].samples) + 1
       /\ \A r \in Requests, f \in ServerFrames :
             (VerifyCaptured(r, f) /\ f.ok) =>
                \A i \in 1..Len(f.faces) :
                   MeetsMinimum(f.faces[i]) =>
                      <<f.faces[i].w, f.faces[i].h>> \in ver'[r].candidates
      ]_vars

\* The step in which the verification of request r accepts
Accepting(r) == ver[r].result # "accept" /\ ver'[r].result = "accept"

\* C25: a verification accepts, and appends its entry of a success, only
\* while its username is in known_faces: not after the user was deleted,
\* also when the verification had begun before.
C25_AcceptedNameIsStored ==
    [][\A r \in Requests :
          Accepting(r) => ver[r].username \in DOMAIN known_faces]_vars

\* C26: a request for the recent log entries with a limit >= 0 is
\* answered with the last limit entries of the log, or of the entries of
\* the username when one is given, in the order of the log; with all of
\* them when there are fewer, and with none when the limit is 0.
C26_LastLimitEntries ==
    [][\A limit \in Limits, n \in Names \cup {"", "c"} :
          (limit >= 0 /\ GetVerificationLogs(limit, n)) =>
             LET all == SelectSeq(verification_logs,
                                  LAMBDA e : n = "" \/ e.username = n)
                 k == IF limit < Len(all) THEN limit ELSE Len(all)
             IN  /\ Len(response'.logs) <= limit
                 /\ response'.logs = SubSeq(all, Len(all) - k + 1, Len(all))
      ]_vars

====
